---- MODULE Spec2Model ----
(***************************************************************************)
(* A model of goph's client (client.go): one SSH connection, over which    *)
(* each call opens its own sub-channel -- a command session (Run,          *)
(* RunContext) or an sftp client (Upload, Download) -- and the recursive   *)
(* tree transfer between the local and the remote filesystem.              *)
(*                                                                         *)
(* A path is the sequence of its components, a filesystem is a set of      *)
(* directories and a map from file paths to contents, a content is a       *)
(* sequence of bytes.  The libraries the client calls (os, path/filepath,  *)
(* io, pkg/sftp, kr/fs, x/crypto/ssh) are modelled by what they do to that *)
(* state; each call of them may fail, a nondeterministic choice.           *)
(***************************************************************************)
EXTENDS Integers, Sequences, FiniteSets, TLC

----------------------------------------------------------------------------
(* Bounds of the model.                                                    *)

\* The most nodes (files and directories) below the root of a source tree.
MaxNodes == 2

\* The most top-level calls one behaviour of Spec makes.
MaxCalls == 1

\* The most Close calls one behaviour of SpecConn makes on its client.
MaxCloses == 2

\* The names a directory entry takes, in lexical order.
NameOrder == <<"a", "b">>

Names == {NameOrder[i] : i \in 1..Len(NameOrder)}

\* The contents a source file takes.
Contents == {<<>>, <<0, 1>>}

\* The callers that may be inside a call at once.
Procs == {"p1", "p2"}

----------------------------------------------------------------------------
(* Paths.                                                                  *)

NoPath == <<"?">>

\* The local source of an Upload, the remote path both calls name, and the
\* local destination of a Download.
SrcRoot == <<"s">>

RemoteRoot == <<"r">>

LocalDst == <<"l", "d">>

Parent(path) == SubSeq(path, 1, Len(path) - 1)

\* path and every ancestor of it, the root <<>> included.
Prefixes(path) == {SubSeq(path, 1, k) : k \in 0..Len(path)}

IsPrefix(base, path) ==
    /\ Len(base) <= Len(path)
    /\ SubSeq(path, 1, Len(base)) = base

\* filepath.Rel(base, path) for a path at or below base: the components of
\* path after base ("." is the empty sequence).
Rel(base, path) == SubSeq(path, Len(base) + 1, Len(path))

\* filepath.Join(dir, rel): the cleaned concatenation.
Join(dir, rel) == dir \o rel

\* filepath.Dir(path).
Dir(path) == Parent(path)

----------------------------------------------------------------------------
(* Filesystems.                                                            *)

NoFiles == [q \in {} |-> <<>>]

EmptyFS == [dirs |-> {<<>>}, files |-> NoFiles]

IsDir(fs, path) == path \in fs.dirs

IsFile(fs, path) == path \in DOMAIN fs.files

Exists(fs, path) == IsDir(fs, path) \/ IsFile(fs, path)

\* MkdirAll cannot succeed through a component that is a regular file.
CanMkdirAll(fs, path) == \A q \in Prefixes(path) : ~IsFile(fs, q)

MkdirAll(fs, path) == [fs EXCEPT !.dirs = @ \cup Prefixes(path)]

\* CreateFile that leaves the bytes of an existing file.
CreateFileKeep(fs, path) ==
    [fs EXCEPT !.files = [q \in (DOMAIN @) \cup {path} |->
                             IF q \in DOMAIN @ THEN @[q] ELSE <<>>]]

\* Create truncates an existing file and makes a missing one.
CreateFile(fs, path) ==
    [fs EXCEPT !.files = [q \in (DOMAIN @) \cup {path} |->
                             IF q = path THEN <<>> ELSE @[q]]]

WriteFile(fs, path, bytes) ==
    [fs EXCEPT !.files = [q \in (DOMAIN @) \cup {path} |->
                             IF q = path THEN bytes ELSE @[q]]]

\* Copied with the last byte of what was read lost.
CopiedShort(bytes, n) == SubSeq(bytes, 1, n - 1)

\* io.Copy into a file just created: the first n bytes of the source reach
\* the destination, all of them when the copy succeeds.
Copied(bytes, n) == SubSeq(bytes, 1, n)

\* The entries of directory path, in lexical order (readDirNames sorts).
SortedEntries(fs, path) ==
    LET present(i) == Exists(fs, path \o <<NameOrder[i]>>)
        idx == {i \in 1..Len(NameOrder) : present(i)}
        RECURSIVE build(_)
        build(i) ==
            IF i > Len(NameOrder) THEN <<>>
            ELSE IF i \in idx THEN <<path \o <<NameOrder[i]>>>> \o build(i + 1)
            ELSE build(i + 1)
    IN build(1)

Reverse(s) == [i \in 1..Len(s) |-> s[Len(s) + 1 - i]]

\* The orders a server may list the entries of directory path in.
Listings(fs, path) ==
    LET s == SortedEntries(fs, path)
    IN {s, Reverse(s)}

----------------------------------------------------------------------------
(* The trees a behaviour starts from.                                      *)

RelPaths == UNION {[1..n -> Names] : n \in 1..MaxNodes}

Shapes ==
    {S \in SUBSET RelPaths :
        /\ Cardinality(S) <= MaxNodes
        /\ \A q \in S : Len(q) > 1 => Parent(q) \in S}

Internal(S) == {Parent(q) : q \in {r \in S : Len(r) > 1}}

\* A tree rooted at a directory: its directories and its files, as paths
\* relative to the root.
DirTrees ==
    UNION {UNION {{[dirs |-> D \cup {<<>>}, files |-> f] :
                      f \in [S \ D -> Contents]} :
                  D \in {E \in SUBSET S : Internal(S) \subseteq E}} :
           S \in Shapes}

\* A tree that is one regular file.
FileTrees == {[dirs |-> {}, files |-> [q \in {<<>>} |-> c]] : c \in Contents}

Trees == DirTrees \cup FileTrees

\* The filesystem holding tree t at root, its ancestors being directories.
Planted(t, root) ==
    [dirs |-> Prefixes(Parent(root)) \cup {Join(root, q) : q \in t.dirs},
     files |-> [x \in {Join(root, q) : q \in DOMAIN t.files} |->
                   t.files[Rel(root, x)]]]

\* The tree a filesystem holds at root (the inverse of Planted).
TreeAt(fs, root) ==
    [dirs |-> {Rel(root, x) : x \in {y \in fs.dirs : IsPrefix(root, y)}},
     files |-> [q \in {Rel(root, x) :
                          x \in {y \in DOMAIN fs.files : IsPrefix(root, y)}} |->
                   fs.files[Join(root, q)]]]

----------------------------------------------------------------------------
(* Errors.  An error value is the operation that failed and the path its   *)
(* text carries: errors of package os are *PathError and carry the path;   *)
(* a status error of the sftp client carries none, and neither "return     *)
(* err" nor fmt.Errorf("...: %w", err) adds one.                           *)

Nil == [op |-> "nil", path |-> NoPath]

OsErr(op, path) == [op |-> op, path |-> path]

SftpErr(op) == [op |-> op, path |-> NoPath]

SshErr(op) == [op |-> op, path |-> NoPath]

----------------------------------------------------------------------------
(* State.                                                                  *)

VARIABLES
    local,      \* the local filesystem
    remote,     \* the remote filesystem
    chans,      \* the open filesystem (sftp) sub-channels of the connection
    cmds,       \* the open command sub-channels (ssh sessions)
    call,       \* per caller: the call it is in and the call's locals
    g,          \* per caller: what the call in flight has done so far
    ncalls,     \* the calls started
    log,        \* the calls that returned, oldest first
    conn        \* the client: how it was made and the state of its connection

vars == <<local, remote, chans, cmds, call, g, ncalls, log, conn>>

NoItem == [path |-> NoPath, err |-> FALSE]

Item(path, e) == [path |-> path, err |-> e]

Items(paths) == [i \in 1..Len(paths) |-> Item(paths[i], FALSE)]

Idle ==
    [op |-> "none", pc |-> "idle", src |-> NoPath, dst |-> NoPath,
     sftp |-> 0, sess |-> 0, cancelled |-> FALSE,
     dir |-> FALSE, stack |-> <<>>, cur |-> NoItem,
     srcH |-> NoPath, dstH |-> NoPath, err |-> Nil,
     handles |-> {}, closeErr |-> FALSE]

\* What is recorded about a call in flight: whether an operation it issued
\* failed and which failed first, the sub-channels it opened, the
\* destination files it wrote in full (path and bytes), the destination
\* directories it made, the nodes it went on to after a failure, and the
\* state it started from.
Fresh(l, r, ch, cm) ==
    [failed |-> FALSE, first |-> "", firstPaths |-> {}, opened |-> 0,
     sessions |-> 0, late |-> {},
     written |-> {}, made |-> {},
     copied |-> {}, syncCalled |-> {}, synced |-> {},
     preLocal |-> l, preRemote |-> r, preChans |-> ch, preCmds |-> cm]

\* The record after operation op failed on the node that paths name (its
\* source path, its destination path).
Mark(gp, op, paths) ==
    [gp EXCEPT !.failed = TRUE,
               !.first = IF gp.failed THEN @ ELSE op,
               !.firstPaths = IF gp.failed THEN @ ELSE paths]

\* The record after the walk took up the node at path.
Visit(gp, path) ==
    IF gp.failed THEN [gp EXCEPT !.late = @ \cup {path}] ELSE gp

\* NewId that gives every sub-channel the same id.
NewIdShared(used) == 1

\* A sub-channel id not in use.
NewId(used) == CHOOSE i \in 1..(Cardinality(used) + 1) : i \notin used

\* The host key policies a Config can hold in Callback: none (nil), the
\* known-hosts check, or ssh.InsecureIgnoreHostKey().
Policies == {"unset", "knownhosts", "insecure"}

\* Before any client is made. client is the *Client a constructor returned,
\* ssh the *ssh.Client in it, policy the Config's Callback, err the error
\* returned, dialed the policies a network connection was dialed with,
\* closes the Close calls made and closeErr what the last of them returned.
NoClient ==
    [client |-> "nil", ssh |-> "nil", policy |-> "unset", pc |-> "idle",
     err |-> Nil, dialed |-> {}, closes |-> 0, closeErr |-> Nil]

\* A client that New returned without an error.
Connected ==
    [NoClient EXCEPT !.client = "ptr", !.ssh = "open", !.policy = "knownhosts",
                     !.pc = "done", !.dialed = {"knownhosts"}]

TypeOK ==
    /\ IsFiniteSet(chans)
    /\ IsFiniteSet(cmds)
    /\ ncalls \in Nat
    /\ \A p \in Procs : call[p].pc = "idle" <=> call[p].op = "none"

Init ==
    /\ \E t \in Trees, side \in {"local", "remote"} :
          /\ local = IF side = "local" THEN Planted(t, SrcRoot) ELSE EmptyFS
          /\ remote = IF side = "remote" THEN Planted(t, RemoteRoot) ELSE EmptyFS
    /\ chans = {}
    /\ cmds = {}
    /\ call = [p \in Procs |-> Idle]
    /\ g = [p \in Procs |-> Fresh(local, remote, {}, {})]
    /\ ncalls = 0
    /\ log = <<>>
    /\ conn = Connected

----------------------------------------------------------------------------
(* Leaving a call.                                                         *)

\* CloseSftp without the deferred Close.
CloseSftpMissing(open, id) == open

\* defer sftpClient.Close(): the call's sub-channel leaves the open ones.
CloseSftp(open, id) == open \ {id}

\* The locals of a call that returned e: its deferred Close calls have run,
\* so it holds no file handle and no sub-channel.
Returned(c, e) ==
    [c EXCEPT !.pc = "done", !.err = e, !.sftp = 0, !.sess = 0,
              !.srcH = NoPath, !.dstH = NoPath,
              !.stack = <<>>, !.cur = NoItem]

\* What a function returns once its deferred Close calls have run, when it
\* was returning e: e, whether a Close failed or not (defer x.Close() drops
\* the error Close returns).
Unwind(e, closeFails) == e

\* CloseHandles without the deferred Close of the files.
CloseHandlesMissing(handles) == handles

\* defer srcFile.Close() and defer dstFile.Close(), at the return of the
\* function that opened the files: none of its handles stays open.
CloseHandles(handles) == {}

\* Whether a deferred Close is pending in the call.
HasDeferred(c) == c.sftp # 0 \/ c.sess # 0 \/ c.handles # {}

\* The locals of a call that was returning e, after its deferred Close
\* calls ran, one of which failed if closeFails.
Unwound(c, e, closeFails) ==
    [Returned(c, Unwind(e, closeFails)) EXCEPT
        !.handles = CloseHandles(c.handles), !.closeErr = closeFails]

\* The ways caller p's call returns e.
Returns(p, e) ==
    {[call EXCEPT ![p] = Unwound(call[p], e, cf)] :
        cf \in IF HasDeferred(call[p]) THEN BOOLEAN ELSE {FALSE}}

\* OnAbort of a transfer that removes the files it wrote before it returns
\* an error.
OnAbortRollback(fs, written) ==
    [fs EXCEPT !.files = [q \in (DOMAIN @) \ {w[1] : w \in written} |-> @[q]]]

\* What a transfer leaves at its destination when it returns an error:
\* what is there (no node already written is removed).
OnAbort(fs, written) == fs

\* The outcomes of io.Copy of bytes: all of them copied, or a failure of the
\* reading or the writing side after n of them.
CopyOutcomes(bytes) ==
    {[ok |-> TRUE, n |-> Len(bytes), side |-> "none"]}
    \cup {[ok |-> FALSE, n |-> k, side |-> sd] :
             k \in 0..Len(bytes), sd \in {"read", "write"}}

----------------------------------------------------------------------------
(* Upload (client.go 165-244).                                             *)

BeginUpload(p) ==
    /\ call[p].pc = "idle"
    /\ call' = [call EXCEPT ![p] =
                   [Idle EXCEPT !.op = "Upload", !.pc = "Upload",
                                !.src = SrcRoot, !.dst = RemoteRoot]]
    /\ g' = [g EXCEPT ![p] = Fresh(local, remote, chans, cmds)]
    /\ ncalls' = ncalls + 1
    /\ UNCHANGED <<conn, local, remote, chans, cmds, log>>

StartUpload(p) ==
    /\ ncalls < MaxCalls
    /\ BeginUpload(p)

\* UploadNext without the check of os.Stat's error.
UploadNextUnchecked(statOk, isDir) ==
    IF isDir THEN "uploadDirectory" ELSE "uploadFile"

\* Where Upload goes after os.Stat: out with the error, or to one of the
\* two uploads.
UploadNext(statOk, isDir) ==
    IF ~statOk THEN "done"
    ELSE IF isDir THEN "uploadDirectory" ELSE "uploadFile"

UploadStat(p) ==
    /\ call[p].pc = "Upload"
    /\ \E ok \in BOOLEAN :
          LET c == call[p]
              statOk == ok /\ Exists(local, c.src)
              next == UploadNext(statOk, IsDir(local, c.src))
          IN /\ call' = [call EXCEPT ![p] =
                            IF next = "done"
                            THEN Returned(c, OsErr("stat", c.src))
                            ELSE [c EXCEPT !.pc = next]]
             /\ g' = [g EXCEPT ![p] =
                         IF statOk THEN @ ELSE Mark(@, "stat", {c.src})]
    /\ UNCHANGED <<conn, local, remote, chans, cmds, ncalls, log>>

\* The first step of the function a call is in, once it holds its sftp
\* client.
AfterNewSftp(pc) ==
    CASE pc = "uploadFile" -> "uploadFile_open"
      [] pc = "uploadDirectory" -> "walk"
      [] pc = "Download" -> "Download_stat"
      [] pc = "UploadV1_new" -> "UploadV1_create"
      [] pc = "DownloadV1_new" -> "DownloadV1_open"
      [] OTHER -> "done"

\* sftp.NewClient(c.Client) / c.NewSftp(): a new sub-channel, or an error.
NewSftp(p) ==
    /\ call[p].pc \in {"uploadFile", "uploadDirectory", "Download",
                      "UploadV1_new", "DownloadV1_new"}
    /\ \E up \in BOOLEAN :
          LET c == call[p]
              ok == up /\ conn.ssh = "open"
              id == NewId(chans)
          IN IF ok
             THEN /\ chans' = chans \cup {id}
                  /\ call' = [call EXCEPT ![p] =
                        [c EXCEPT !.sftp = id, !.pc = AfterNewSftp(c.pc),
                                  !.dir = (c.pc = "uploadDirectory"),
                                  !.stack = IF c.pc = "uploadDirectory"
                                            THEN <<Item(c.src, FALSE)>>
                                            ELSE <<>>]]
                  /\ g' = [g EXCEPT ![p].opened = @ + 1]
             ELSE /\ chans' = chans
                  /\ call' \in Returns(p, SftpErr("newclient"))
                  /\ g' = [g EXCEPT ![p] = Mark(@, "newclient", {})]
    /\ UNCHANGED <<conn, local, remote, cmds, ncalls, log>>

\* uploadFile: os.Open(srcPath).
UploadFileOpen(p) ==
    /\ call[p].pc = "uploadFile_open"
    /\ \E ok \in BOOLEAN :
          LET c == call[p]
          IN IF ok /\ IsFile(local, c.src)
             THEN /\ call' = [call EXCEPT ![p] =
                        [c EXCEPT !.srcH = c.src, !.pc = "uploadFile_create",
                                  !.handles = @ \cup {<<"local", c.src>>}]]
                  /\ UNCHANGED <<chans, g>>
             ELSE /\ call' \in Returns(p, OsErr("open", c.src))
                  /\ chans' = CloseSftp(chans, c.sftp)
                  /\ g' = [g EXCEPT ![p] = Mark(@, "open", {c.src, c.dst})]
    /\ UNCHANGED <<conn, local, remote, cmds, ncalls, log>>

\* uploadFile: sftpClient.Create(dstPath).  Whether a server makes a file
\* whose parent directory is missing is the server's choice.
UploadFileCreate(p) ==
    /\ call[p].pc = "uploadFile_create"
    /\ \E ok \in BOOLEAN :
          LET c == call[p]
          IN IF ok /\ ~IsDir(remote, c.dst)
             THEN /\ remote' = CreateFile(remote, c.dst)
                  /\ call' = [call EXCEPT ![p] =
                        [c EXCEPT !.dstH = c.dst, !.pc = "uploadFile_copy",
                                  !.handles = @ \cup {<<"remote", c.dst>>}]]
                  /\ UNCHANGED <<chans, g>>
             ELSE /\ remote' = remote
                  /\ call' \in Returns(p, SftpErr("create"))
                  /\ chans' = CloseSftp(chans, c.sftp)
                  /\ g' = [g EXCEPT ![p] = Mark(@, "create", {c.src, c.dst})]
    /\ UNCHANGED <<conn, local, cmds, ncalls, log>>

\* uploadFile: io.Copy(dstFile, srcFile), then the return of its error.
UploadFileCopy(p) ==
    /\ call[p].pc = "uploadFile_copy"
    /\ LET c == call[p]
           bytes == local.files[c.srcH]
       IN \E r \in CopyOutcomes(bytes) :
             /\ remote' = WriteFile(remote, c.dstH, Copied(bytes, r.n))
             /\ chans' = CloseSftp(chans, c.sftp)
             /\ call' \in Returns(p, IF r.ok THEN Nil
                               ELSE IF r.side = "read" THEN OsErr("copy", c.srcH)
                               ELSE SftpErr("copy"))
             /\ g' = [g EXCEPT ![p] =
                   IF r.ok
                   THEN [@ EXCEPT !.written = @ \cup {<<c.dstH, bytes>>}]
                   ELSE Mark(@, "copy", {c.src, c.dst})]
    /\ UNCHANGED <<conn, local, cmds, ncalls, log>>

----------------------------------------------------------------------------
(* uploadDirectory: filepath.Walk(srcDir, callback) (client.go 203-244).   *)
(* Walk visits a directory, then its entries in lexical order; the stack   *)
(* holds the nodes still to visit, the next one first.                     *)

\* UploadTarget from the node's base name instead of its relative path.
UploadTargetBase(c, path) ==
    IF path = c.src THEN c.dst ELSE Join(c.dst, <<path[Len(path)]>>)

\* The callback's targetPath for the node at path.
UploadTarget(c, path) == Join(c.dst, Rel(c.src, path))

\* The destination after sftpClient.MkdirAll(targetPath) of the callback,
\* whose result the callback drops.
WalkMkdir(fs, target, ok) ==
    IF ok /\ CanMkdirAll(fs, target) THEN MkdirAll(fs, target) ELSE fs

\* One call of the callback on a node that is not a regular file to copy:
\* Walk hands it an error (lstat or readdir failed) and it returns it, or
\* the node is a directory and it calls MkdirAll; for a file it goes on to
\* os.Open.
WalkVisit(p) ==
    /\ call[p].pc = "walk"
    /\ Len(call[p].stack) > 0
    /\ \E werr \in BOOLEAN, ok \in BOOLEAN :
          LET c == call[p]
              path == Head(c.stack).path
              target == UploadTarget(c, path)
              made == ok /\ CanMkdirAll(remote, target)
          IN IF werr \/ ~Exists(local, path)
             THEN /\ ok
                  /\ call' \in Returns(p, OsErr("walk", path))
                  /\ chans' = CloseSftp(chans, c.sftp)
                  /\ remote' = OnAbort(remote, g[p].written)
                  /\ g' = [g EXCEPT ![p] = Mark(@, "walk", {path, target})]
             ELSE IF IsDir(local, path)
             THEN /\ remote' = WalkMkdir(remote, target, ok)
                  /\ call' = [call EXCEPT ![p] =
                        [c EXCEPT !.stack = Items(SortedEntries(local, path))
                                            \o Tail(c.stack),
                                  !.cur = Item(path, FALSE)]]
                  /\ g' = [g EXCEPT ![p] =
                        IF made
                        THEN [Visit(@, path) EXCEPT !.made = @ \cup {target}]
                        ELSE Mark(Visit(@, path), "mkdir", {path, target})]
                  /\ chans' = chans
             ELSE /\ ok
                  /\ call' = [call EXCEPT ![p] =
                        [c EXCEPT !.stack = Tail(c.stack),
                                  !.cur = Item(path, FALSE),
                                  !.pc = "walk_open"]]
                  /\ g' = [g EXCEPT ![p] = Visit(@, path)]
                  /\ UNCHANGED <<remote, chans>>
    /\ UNCHANGED <<conn, local, cmds, ncalls, log>>

\* The callback on a file: os.Open(path).
WalkOpen(p) ==
    /\ call[p].pc = "walk_open"
    /\ \E ok \in BOOLEAN :
          LET c == call[p]
              path == c.cur.path
          IN IF ok /\ IsFile(local, path)
             THEN /\ call' = [call EXCEPT ![p] =
                        [c EXCEPT !.srcH = path, !.pc = "walk_create",
                                  !.handles = @ \cup {<<"local", path>>}]]
                  /\ UNCHANGED <<remote, chans, g>>
             ELSE /\ call' \in Returns(p, OsErr("open", path))
                  /\ chans' = CloseSftp(chans, c.sftp)
                  /\ remote' = OnAbort(remote, g[p].written)
                  /\ g' = [g EXCEPT ![p] =
                        Mark(@, "open", {path, UploadTarget(c, path)})]
    /\ UNCHANGED <<conn, local, cmds, ncalls, log>>

\* The callback on a file: sftpClient.Create(targetPath).  The callback
\* gets here also when MkdirAll of the parent failed; whether the server
\* then makes the file is the server's choice.
WalkCreate(p) ==
    /\ call[p].pc = "walk_create"
    /\ \E ok \in BOOLEAN :
          LET c == call[p]
              path == c.cur.path
              target == UploadTarget(c, path)
          IN IF ok /\ ~IsDir(remote, target)
             THEN /\ remote' = CreateFile(remote, target)
                  /\ call' = [call EXCEPT ![p] =
                        [c EXCEPT !.dstH = target, !.pc = "walk_copy",
                                  !.handles = @ \cup {<<"remote", target>>}]]
                  /\ UNCHANGED <<chans, g>>
             ELSE /\ remote' = OnAbort(remote, g[p].written)
                  /\ call' \in Returns(p, SftpErr("create"))
                  /\ chans' = CloseSftp(chans, c.sftp)
                  /\ g' = [g EXCEPT ![p] = Mark(@, "create", {path, target})]
    /\ UNCHANGED <<conn, local, cmds, ncalls, log>>

\* The callback on a file: io.Copy(dstFile, srcFile); the callback returns
\* and its deferred Close calls release both handles.
WalkCopy(p) ==
    /\ call[p].pc = "walk_copy"
    /\ LET c == call[p]
           bytes == local.files[c.srcH]
       IN \E r \in CopyOutcomes(bytes) :
             LET wrote == WriteFile(remote, c.dstH, Copied(bytes, r.n))
             IN IF r.ok
                THEN /\ remote' = wrote
                     /\ call' = [call EXCEPT ![p] =
                           [c EXCEPT !.srcH = NoPath, !.dstH = NoPath,
                                     !.handles = CloseHandles(@),
                                     !.pc = "walk"]]
                     /\ g' = [g EXCEPT ![p].written = @ \cup {<<c.dstH, bytes>>}]
                     /\ chans' = chans
                ELSE /\ remote' = OnAbort(wrote, g[p].written)
                     /\ call' \in Returns(p, IF r.side = "read"
                                       THEN OsErr("copy", c.srcH)
                                       ELSE SftpErr("copy"))
                     /\ chans' = CloseSftp(chans, c.sftp)
                     /\ g' = [g EXCEPT ![p] = Mark(@, "copy", {c.srcH, c.dstH})]
    /\ UNCHANGED <<conn, local, cmds, ncalls, log>>

\* Walk has visited every node: uploadDirectory returns nil.
WalkEnd(p) ==
    /\ call[p].pc = "walk"
    /\ Len(call[p].stack) = 0
    /\ call' \in Returns(p, Nil)
    /\ chans' = CloseSftp(chans, call[p].sftp)
    /\ UNCHANGED <<conn, local, remote, cmds, g, ncalls, log>>

----------------------------------------------------------------------------
(* Download (client.go 299-370).                                           *)

BeginDownload(p) ==
    /\ call[p].pc = "idle"
    /\ call' = [call EXCEPT ![p] =
                   [Idle EXCEPT !.op = "Download", !.pc = "Download",
                                !.src = RemoteRoot, !.dst = LocalDst]]
    /\ g' = [g EXCEPT ![p] = Fresh(local, remote, chans, cmds)]
    /\ ncalls' = ncalls + 1
    /\ UNCHANGED <<conn, local, remote, chans, cmds, log>>

StartDownload(p) ==
    /\ ncalls < MaxCalls
    /\ BeginDownload(p)

\* DownloadNext without the check of Stat's error.
DownloadNextUnchecked(statOk, isDir) ==
    IF isDir THEN "downloadDirectory" ELSE "downloadFile"

\* Where Download goes after sftpClient.Stat: out with the error, or to one
\* of the two downloads.
DownloadNext(statOk, isDir) ==
    IF ~statOk THEN "done"
    ELSE IF isDir THEN "downloadDirectory" ELSE "downloadFile"

\* sftpClient.Stat(remotePath), then downloadDirectory or downloadFile.
\* sftpClient.Walk stats the root itself, and keeps the error for the
\* first Step.
DownloadStat(p) ==
    /\ call[p].pc = "Download_stat"
    /\ \E ok \in BOOLEAN, rootErr \in BOOLEAN :
          LET c == call[p]
              statOk == ok /\ Exists(remote, c.src)
              next == DownloadNext(statOk, IsDir(remote, c.src))
          IN /\ rootErr => next = "downloadDirectory"
             /\ IF next = "done"
                THEN /\ call' \in Returns(p, SftpErr("stat"))
                     /\ chans' = CloseSftp(chans, c.sftp)
                ELSE /\ call' = [call EXCEPT ![p] =
                           IF next = "downloadDirectory"
                           THEN [c EXCEPT !.pc = next, !.dir = TRUE,
                                          !.stack = <<Item(c.src, rootErr)>>]
                           ELSE [c EXCEPT !.pc = next,
                                          !.cur = Item(c.src, FALSE)]]
                     /\ chans' = chans
             /\ g' = [g EXCEPT ![p] =
                   IF statOk THEN @ ELSE Mark(@, "stat", {c.src})]
    /\ UNCHANGED <<conn, local, remote, cmds, ncalls, log>>

\* The localPath downloadFile is called with: Download's own, or
\* filepath.Join(localDir, relPath) from the walk.
DownloadTarget(c, path) ==
    IF c.dir THEN Join(c.dst, Rel(c.src, path)) ELSE c.dst

\* downloadFile: sftpClient.Open(remotePath).
DownloadFileOpen(p) ==
    /\ call[p].pc = "downloadFile"
    /\ \E ok \in BOOLEAN :
          LET c == call[p]
              path == c.cur.path
          IN IF ok /\ IsFile(remote, path)
             THEN /\ call' = [call EXCEPT ![p] =
                        [c EXCEPT !.srcH = path, !.pc = "downloadFile_mkdir",
                                  !.handles = @ \cup {<<"remote", path>>}]]
                  /\ UNCHANGED <<local, chans, g>>
             ELSE /\ call' \in Returns(p, SftpErr("open"))
                  /\ chans' = CloseSftp(chans, c.sftp)
                  /\ local' = OnAbort(local, g[p].written)
                  /\ g' = [g EXCEPT ![p] =
                        Mark(@, "open", {path, DownloadTarget(c, path)})]
    /\ UNCHANGED <<conn, remote, cmds, ncalls, log>>

\* downloadFile: os.MkdirAll(filepath.Dir(localPath), 0755).
DownloadFileMkdir(p) ==
    /\ call[p].pc = "downloadFile_mkdir"
    /\ \E ok \in BOOLEAN :
          LET c == call[p]
              target == DownloadTarget(c, c.cur.path)
          IN IF ok /\ CanMkdirAll(local, Dir(target))
             THEN /\ local' = MkdirAll(local, Dir(target))
                  /\ call' = [call EXCEPT ![p] =
                        [c EXCEPT !.pc = "downloadFile_create"]]
                  /\ UNCHANGED <<chans, g>>
             ELSE /\ local' = OnAbort(local, g[p].written)
                  /\ call' \in Returns(p, OsErr("mkdir", Dir(target)))
                  /\ chans' = CloseSftp(chans, c.sftp)
                  /\ g' = [g EXCEPT ![p] =
                        Mark(@, "mkdir", {c.cur.path, target})]
    /\ UNCHANGED <<conn, remote, cmds, ncalls, log>>

\* downloadFile: os.Create(localPath), which fails where the parent is no
\* directory or the path is one.
DownloadFileCreate(p) ==
    /\ call[p].pc = "downloadFile_create"
    /\ \E ok \in BOOLEAN :
          LET c == call[p]
              target == DownloadTarget(c, c.cur.path)
          IN IF ok /\ IsDir(local, Dir(target)) /\ ~IsDir(local, target)
             THEN /\ local' = CreateFile(local, target)
                  /\ call' = [call EXCEPT ![p] =
                        [c EXCEPT !.dstH = target, !.pc = "downloadFile_copy",
                                  !.handles = @ \cup {<<"local", target>>}]]
                  /\ UNCHANGED <<chans, g>>
             ELSE /\ local' = OnAbort(local, g[p].written)
                  /\ call' \in Returns(p, OsErr("create", target))
                  /\ chans' = CloseSftp(chans, c.sftp)
                  /\ g' = [g EXCEPT ![p] =
                        Mark(@, "create", {c.cur.path, target})]
    /\ UNCHANGED <<conn, remote, cmds, ncalls, log>>

\* downloadFile: io.Copy(dstFile, srcFile).
DownloadFileCopy(p) ==
    /\ call[p].pc = "downloadFile_copy"
    /\ LET c == call[p]
           bytes == remote.files[c.srcH]
       IN \E r \in CopyOutcomes(bytes) :
             LET wrote == WriteFile(local, c.dstH, Copied(bytes, r.n))
             IN IF r.ok
                THEN /\ local' = wrote
                     /\ call' = [call EXCEPT ![p] =
                           [c EXCEPT !.pc = "downloadFile_sync"]]
                     /\ g' = [g EXCEPT ![p].copied = @ \cup {c.dstH}]
                     /\ UNCHANGED <<chans>>
                ELSE /\ local' = OnAbort(wrote, g[p].written)
                     /\ call' \in Returns(p, IF r.side = "write"
                                       THEN OsErr("copy", c.dstH)
                                       ELSE SftpErr("copy"))
                     /\ chans' = CloseSftp(chans, c.sftp)
                     /\ g' = [g EXCEPT ![p] = Mark(@, "copy", {c.srcH, c.dstH})]
    /\ UNCHANGED <<conn, remote, cmds, ncalls, log>>

\* SyncError that drops the error of Sync.
SyncErrorDropped(ok, path) == Nil

\* What dstFile.Sync() / local.Sync() returns.
SyncError(ok, path) == IF ok THEN Nil ELSE OsErr("sync", path)

\* downloadFile: return dstFile.Sync(); the deferred Close calls release
\* both handles, and a walk goes on to its next Step.
DownloadFileSync(p) ==
    /\ call[p].pc = "downloadFile_sync"
    /\ \E ok \in BOOLEAN :
          LET c == call[p]
              bytes == remote.files[c.srcH]
              e == SyncError(ok, c.dstH)
              g1 == [g[p] EXCEPT !.syncCalled = @ \cup {c.dstH},
                                 !.synced = IF ok THEN @ \cup {c.dstH} ELSE @]
              g2 == IF ok THEN [g1 EXCEPT !.written = @ \cup {<<c.dstH, bytes>>}]
                    ELSE Mark(g1, "sync", {c.srcH, c.dstH})
          IN /\ IF e = Nil /\ c.dir
                THEN /\ call' = [call EXCEPT ![p] =
                           [c EXCEPT !.srcH = NoPath, !.dstH = NoPath,
                                     !.handles = CloseHandles(@),
                                     !.pc = "downloadDirectory"]]
                     /\ chans' = chans
                ELSE /\ call' \in Returns(p, e)
                     /\ chans' = CloseSftp(chans, c.sftp)
             /\ local' = IF e = Nil THEN local ELSE OnAbort(local, g[p].written)
             /\ g' = [g EXCEPT ![p] = g2]
    /\ UNCHANGED <<conn, remote, cmds, ncalls, log>>

\* downloadDirectory: one turn of "for walker.Step()".  Step first lists
\* the directory it last returned (a failure is kept for that directory,
\* which is then returned once more), then pops the next node; the loop
\* body returns the node's error, makes a directory, or calls downloadFile.
\* With nothing left to pop the loop ends and nil is returned.
DownloadStep(p) ==
    /\ call[p].pc = "downloadDirectory"
    /\ LET c == call[p]
           descend == c.cur # NoItem /\ ~c.cur.err /\ IsDir(remote, c.cur.path)
           pushes == IF descend
                     THEN {<<Item(c.cur.path, TRUE)>>}
                          \cup {Items(l) : l \in Listings(remote, c.cur.path)}
                     ELSE {<<>>}
       IN \E push \in pushes, ok \in BOOLEAN :
             LET stack == push \o c.stack
                 listFailed == descend /\ push = <<Item(c.cur.path, TRUE)>>
                 g1 == IF listFailed
                       THEN Mark(g[p], "walk", {c.cur.path})
                       ELSE g[p]
             IN IF Len(stack) = 0
                THEN /\ ok
                     /\ call' \in Returns(p, Nil)
                     /\ chans' = CloseSftp(chans, c.sftp)
                     /\ g' = [g EXCEPT ![p] = g1]
                     /\ local' = local
                ELSE LET item == Head(stack)
                         target == DownloadTarget(c, item.path)
                     IN IF item.err \/ ~Exists(remote, item.path)
                        THEN /\ ok
                             /\ call' \in Returns(p, SftpErr("walk"))
                             /\ chans' = CloseSftp(chans, c.sftp)
                             /\ g' = [g EXCEPT ![p] =
                                   Mark(g1, "walk", {item.path, target})]
                             /\ local' = OnAbort(local, g[p].written)
                        ELSE IF IsDir(remote, item.path)
                        THEN IF ok /\ CanMkdirAll(local, target)
                             THEN /\ local' = MkdirAll(local, target)
                                  /\ call' = [call EXCEPT ![p] =
                                        [c EXCEPT !.stack = Tail(stack),
                                                  !.cur = item]]
                                  /\ g' = [g EXCEPT ![p] =
                                        [Visit(g1, item.path)
                                            EXCEPT !.made = @ \cup {target}]]
                                  /\ chans' = chans
                             ELSE /\ local' = OnAbort(local, g[p].written)
                                  /\ call' \in Returns(p, OsErr("mkdir", target))
                                  /\ chans' = CloseSftp(chans, c.sftp)
                                  /\ g' = [g EXCEPT ![p] =
                                        Mark(Visit(g1, item.path), "mkdir",
                                             {item.path, target})]
                        ELSE /\ ok
                             /\ call' = [call EXCEPT ![p] =
                                   [c EXCEPT !.stack = Tail(stack),
                                             !.cur = item,
                                             !.pc = "downloadFile"]]
                             /\ g' = [g EXCEPT ![p] = Visit(g1, item.path)]
                             /\ UNCHANGED <<local, chans>>
    /\ UNCHANGED <<conn, remote, cmds, ncalls, log>>

----------------------------------------------------------------------------
(* UploadV1 and DownloadV1 (client.go 246-297).                            *)

BeginUploadV1(p) ==
    /\ call[p].pc = "idle"
    /\ call' = [call EXCEPT ![p] =
                   [Idle EXCEPT !.op = "UploadV1", !.pc = "UploadV1",
                                !.src = SrcRoot, !.dst = RemoteRoot]]
    /\ g' = [g EXCEPT ![p] = Fresh(local, remote, chans, cmds)]
    /\ ncalls' = ncalls + 1
    /\ UNCHANGED <<conn, local, remote, chans, cmds, log>>

StartUploadV1(p) ==
    /\ ncalls < MaxCalls
    /\ BeginUploadV1(p)

\* UploadV1: os.Open(localPath), which opens a directory too.
UploadV1Open(p) ==
    /\ call[p].pc = "UploadV1"
    /\ \E ok \in BOOLEAN :
          LET c == call[p]
          IN IF ok /\ Exists(local, c.src)
             THEN /\ call' = [call EXCEPT ![p] =
                        [c EXCEPT !.srcH = c.src, !.pc = "UploadV1_new",
                                  !.handles = @ \cup {<<"local", c.src>>}]]
                  /\ g' = g
             ELSE /\ call' \in Returns(p, OsErr("open", c.src))
                  /\ g' = [g EXCEPT ![p] = Mark(@, "open", {c.src, c.dst})]
    /\ UNCHANGED <<conn, local, remote, chans, cmds, ncalls, log>>

\* UploadV1: ftp.Create(remotePath).
UploadV1Create(p) ==
    /\ call[p].pc = "UploadV1_create"
    /\ \E ok \in BOOLEAN :
          LET c == call[p]
          IN IF ok /\ ~IsDir(remote, c.dst)
             THEN /\ remote' = CreateFile(remote, c.dst)
                  /\ call' = [call EXCEPT ![p] =
                        [c EXCEPT !.dstH = c.dst, !.pc = "UploadV1_copy",
                                  !.handles = @ \cup {<<"remote", c.dst>>}]]
                  /\ UNCHANGED <<chans, g>>
             ELSE /\ remote' = remote
                  /\ call' \in Returns(p, SftpErr("create"))
                  /\ chans' = CloseSftp(chans, c.sftp)
                  /\ g' = [g EXCEPT ![p] = Mark(@, "create", {c.src, c.dst})]
    /\ UNCHANGED <<conn, local, cmds, ncalls, log>>

\* The outcomes of io.Copy from the handle on path: a directory cannot be
\* read.
ReadOutcomes(fs, path) ==
    IF IsFile(fs, path) THEN CopyOutcomes(fs.files[path])
    ELSE {[ok |-> FALSE, n |-> 0, side |-> "read"]}

\* The bytes behind the handle on path.
BytesOf(fs, path) == IF IsFile(fs, path) THEN fs.files[path] ELSE <<>>

\* UploadV1: _, err = io.Copy(remote, local); return.
UploadV1Copy(p) ==
    /\ call[p].pc = "UploadV1_copy"
    /\ LET c == call[p]
           bytes == BytesOf(local, c.srcH)
       IN \E r \in ReadOutcomes(local, c.srcH) :
             /\ remote' = WriteFile(remote, c.dstH, Copied(bytes, r.n))
             /\ chans' = CloseSftp(chans, c.sftp)
             /\ call' \in Returns(p, IF r.ok THEN Nil
                               ELSE IF r.side = "read" THEN OsErr("copy", c.srcH)
                               ELSE SftpErr("copy"))
             /\ g' = [g EXCEPT ![p] =
                   IF r.ok
                   THEN [@ EXCEPT !.written = @ \cup {<<c.dstH, bytes>>}]
                   ELSE Mark(@, "copy", {c.src, c.dst})]
    /\ UNCHANGED <<conn, local, cmds, ncalls, log>>

BeginDownloadV1(p) ==
    /\ call[p].pc = "idle"
    /\ call' = [call EXCEPT ![p] =
                   [Idle EXCEPT !.op = "DownloadV1", !.pc = "DownloadV1",
                                !.src = RemoteRoot, !.dst = LocalDst]]
    /\ g' = [g EXCEPT ![p] = Fresh(local, remote, chans, cmds)]
    /\ ncalls' = ncalls + 1
    /\ UNCHANGED <<conn, local, remote, chans, cmds, log>>

StartDownloadV1(p) ==
    /\ ncalls < MaxCalls
    /\ BeginDownloadV1(p)

\* DownloadV1: os.Create(localPath), its first step: before the sftp client
\* is made and before the remote file is opened.
DownloadV1Create(p) ==
    /\ call[p].pc = "DownloadV1"
    /\ \E ok \in BOOLEAN :
          LET c == call[p]
          IN IF ok /\ IsDir(local, Dir(c.dst)) /\ ~IsDir(local, c.dst)
             THEN /\ local' = CreateFile(local, c.dst)
                  /\ call' = [call EXCEPT ![p] =
                        [c EXCEPT !.dstH = c.dst, !.pc = "DownloadV1_new",
                                  !.handles = @ \cup {<<"local", c.dst>>}]]
                  /\ g' = g
             ELSE /\ local' = local
                  /\ call' \in Returns(p, OsErr("create", c.dst))
                  /\ g' = [g EXCEPT ![p] = Mark(@, "create", {c.src, c.dst})]
    /\ UNCHANGED <<conn, remote, chans, cmds, ncalls, log>>

\* DownloadV1: ftp.Open(remotePath).  A server may open a directory, which
\* then cannot be read.
DownloadV1Open(p) ==
    /\ call[p].pc = "DownloadV1_open"
    /\ \E ok \in BOOLEAN :
          LET c == call[p]
          IN IF ok /\ Exists(remote, c.src)
             THEN /\ call' = [call EXCEPT ![p] =
                        [c EXCEPT !.srcH = c.src, !.pc = "DownloadV1_copy",
                                  !.handles = @ \cup {<<"remote", c.src>>}]]
                  /\ UNCHANGED <<chans, g>>
             ELSE /\ call' \in Returns(p, SftpErr("open"))
                  /\ chans' = CloseSftp(chans, c.sftp)
                  /\ g' = [g EXCEPT ![p] = Mark(@, "open", {c.src, c.dst})]
    /\ UNCHANGED <<conn, local, remote, cmds, ncalls, log>>

\* DownloadV1: if _, err = io.Copy(local, remote); err != nil { return }.
DownloadV1Copy(p) ==
    /\ call[p].pc = "DownloadV1_copy"
    /\ LET c == call[p]
           bytes == BytesOf(remote, c.srcH)
       IN \E r \in ReadOutcomes(remote, c.srcH) :
             /\ local' = WriteFile(local, c.dstH, Copied(bytes, r.n))
             /\ IF r.ok
                THEN /\ call' = [call EXCEPT ![p] =
                           [c EXCEPT !.pc = "DownloadV1_sync"]]
                     /\ g' = [g EXCEPT ![p].copied = @ \cup {c.dstH}]
                     /\ chans' = chans
                ELSE /\ call' \in Returns(p, IF r.side = "write"
                                       THEN OsErr("copy", c.dstH)
                                       ELSE SftpErr("copy"))
                     /\ chans' = CloseSftp(chans, c.sftp)
                     /\ g' = [g EXCEPT ![p] = Mark(@, "copy", {c.src, c.dst})]
    /\ UNCHANGED <<conn, remote, cmds, ncalls, log>>

\* DownloadV1: return local.Sync().
DownloadV1Sync(p) ==
    /\ call[p].pc = "DownloadV1_sync"
    /\ \E ok \in BOOLEAN :
          LET c == call[p]
              g1 == [g[p] EXCEPT !.syncCalled = @ \cup {c.dstH},
                                 !.synced = IF ok THEN @ \cup {c.dstH} ELSE @]
          IN /\ call' \in Returns(p, SyncError(ok, c.dstH))
             /\ chans' = CloseSftp(chans, c.sftp)
             /\ g' = [g EXCEPT ![p] =
                   IF ok THEN [g1 EXCEPT !.written =
                                  @ \cup {<<c.dstH, BytesOf(remote, c.srcH)>>}]
                   ELSE Mark(g1, "sync", {c.src, c.dst})]
    /\ UNCHANGED <<conn, local, remote, cmds, ncalls, log>>

V1(p) ==
    \/ UploadV1Open(p)
    \/ UploadV1Create(p)
    \/ UploadV1Copy(p)
    \/ DownloadV1Create(p)
    \/ DownloadV1Open(p)
    \/ DownloadV1Copy(p)
    \/ DownloadV1Sync(p)

----------------------------------------------------------------------------
(* Run and RunContext (client.go 96-153).                                  *)

\* CloseSession without the deferred Close.
CloseSessionMissing(open, id) == open

\* defer sess.Close(): the command sub-channel leaves the open ones.
CloseSession(open, id) == open \ {id}

BeginRun(p) ==
    /\ call[p].pc = "idle"
    /\ call' = [call EXCEPT ![p] = [Idle EXCEPT !.op = "Run", !.pc = "Run"]]
    /\ g' = [g EXCEPT ![p] = Fresh(local, remote, chans, cmds)]
    /\ ncalls' = ncalls + 1
    /\ UNCHANGED <<conn, local, remote, chans, cmds, log>>

StartRun(p) ==
    /\ ncalls < MaxCalls
    /\ BeginRun(p)

\* The context RunContext is given has been cancelled already, or not.
BeginRunContext(p) ==
    /\ call[p].pc = "idle"
    /\ \E done \in BOOLEAN :
          call' = [call EXCEPT ![p] =
                     [Idle EXCEPT !.op = "RunContext", !.pc = "RunContext",
                                  !.cancelled = done]]
    /\ g' = [g EXCEPT ![p] = Fresh(local, remote, chans, cmds)]
    /\ ncalls' = ncalls + 1
    /\ UNCHANGED <<conn, local, remote, chans, cmds, log>>

StartRunContext(p) ==
    /\ ncalls < MaxCalls
    /\ BeginRunContext(p)

\* What follows c.NewSession() without the check of its error.
CommandNextUnchecked(op, ok) ==
    IF op = "Run" THEN "Run_output" ELSE "RunContext_output"

\* What follows c.NewSession(): Run returns its error (98-101), and so do
\* Command (131-133), CommandContext (146-148) and RunContext (115-118);
\* without an error the command is run on the new sub-channel.
CommandNext(op, ok) ==
    IF ~ok THEN "done"
    ELSE IF op = "Run" THEN "Run_output" ELSE "RunContext_output"

\* c.NewSession(), in Run and (through CommandContext) in Command.
NewSession(p) ==
    /\ call[p].pc \in {"Run", "RunContext"}
    /\ \E up \in BOOLEAN :
          LET c == call[p]
              ok == up /\ conn.ssh = "open"
              id == NewId(cmds)
              next == CommandNext(c.op, ok)
          IN /\ cmds' = IF ok THEN cmds \cup {id} ELSE cmds
             /\ call' = [call EXCEPT ![p] =
                   IF next = "done"
                   THEN Returned(c, SshErr("newsession"))
                   ELSE [c EXCEPT !.sess = IF ok THEN id ELSE 0, !.pc = next]]
             /\ g' = [g EXCEPT ![p] =
                   IF ok THEN [@ EXCEPT !.sessions = @ + 1]
                   ELSE Mark(@, "newsession", {})]
    /\ UNCHANGED <<conn, local, remote, chans, ncalls, log>>

\* Run: return sess.CombinedOutput(cmd), after which the deferred
\* sess.Close() runs.
RunOutput(p) ==
    /\ call[p].pc = "Run_output"
    /\ \E ok \in BOOLEAN :
          LET c == call[p]
          IN /\ call' \in Returns(p, IF ok THEN Nil ELSE SshErr("exec"))
             /\ cmds' = CloseSession(cmds, c.sess)
             /\ g' = [g EXCEPT ![p] = IF ok THEN @ ELSE Mark(@, "exec", {})]
    /\ UNCHANGED <<conn, local, remote, chans, ncalls, log>>

\* Cmd.CombinedOutput, whose code is not in client.go: the command runs to
\* its end, or the context's cancellation ends it with a Cancelled error;
\* either way the command's sub-channel is closed before it returns.
CmdClose(open, id) == open \ {id}

CmdCombinedOutput(p) ==
    /\ call[p].pc = "RunContext_output"
    /\ \E ok \in BOOLEAN, fires \in BOOLEAN :
          LET c == call[p]
              stopped == c.cancelled \/ fires
          IN /\ c.cancelled => ok /\ fires
             /\ fires => ok
             /\ call' \in Returns(p, IF stopped THEN SshErr("cancelled")
                               ELSE IF ok THEN Nil ELSE SshErr("exec"))
             /\ cmds' = CmdClose(cmds, c.sess)
             /\ g' = [g EXCEPT ![p] =
                   IF stopped THEN Mark(@, "cancelled", {})
                   ELSE IF ok THEN @ ELSE Mark(@, "exec", {})]
    /\ UNCHANGED <<conn, local, remote, chans, ncalls, log>>

Command(p) ==
    \/ NewSession(p)
    \/ RunOutput(p)
    \/ CmdCombinedOutput(p)

----------------------------------------------------------------------------
(* Making a client and closing it (client.go 39-94, 160-163).              *)

Others == <<local, remote, chans, cmds, call, g, ncalls, log>>

\* New: DefaultKnownHosts() gives the known-hosts callback or an error; with
\* the error New returns at once, c still nil and nothing dialed.
New ==
    /\ conn.pc = "idle"
    /\ \E hostsOk \in BOOLEAN :
          conn' = IF hostsOk
                  THEN [conn EXCEPT !.policy = "knownhosts", !.pc = "NewConn"]
                  ELSE [conn EXCEPT !.pc = "done",
                                    !.err = OsErr("knownhosts", NoPath)]
    /\ UNCHANGED Others

\* NewUnknown: NewConn with Callback: ssh.InsecureIgnoreHostKey().
NewUnknown ==
    /\ conn.pc = "idle"
    /\ conn' = [conn EXCEPT !.policy = "insecure", !.pc = "NewConn"]
    /\ UNCHANGED Others

\* A caller's NewConn with a Config of its own, Callback set or left nil.
CallNewConn ==
    /\ conn.pc = "idle"
    /\ \E cb \in Policies :
          conn' = [conn EXCEPT !.policy = cb, !.pc = "NewConn"]
    /\ UNCHANGED Others

\* NewConn: c = &Client{Config: config}, before any dial and with no look
\* at the Config.
NewConn ==
    /\ conn.pc = "NewConn"
    /\ conn' = [conn EXCEPT !.client = "ptr", !.pc = "Dial"]
    /\ UNCHANGED Others

\* Dial: ssh.Dial(proto, addr, &ssh.ClientConfig{HostKeyCallback:
\* c.Callback, ...}), which first dials the network connection
\* (net.DialTimeout), whatever the callback is.  On a failure NewConn
\* returns c, the *Client it built, together with the error.
Dial ==
    /\ conn.pc = "Dial"
    /\ \E ok \in BOOLEAN :
          conn' = [conn EXCEPT !.dialed = @ \cup {conn.policy},
                               !.pc = IF ok THEN "handshake" ELSE "done",
                               !.err = IF ok THEN Nil ELSE SshErr("dial")]
    /\ UNCHANGED Others

\* The rest of ssh.Dial, on the dialed connection: ssh.NewClientConn closes
\* it with an error when HostKeyCallback is nil; otherwise the handshake
\* succeeds, or fails on the host key (which InsecureIgnoreHostKey accepts
\* whatever it is) or on the authentication.  c.Client, err =
\* Dial(...); return.
Handshake ==
    /\ conn.pc = "handshake"
    /\ \E r \in {"ok", "hostkey", "auth"} :
          LET e == IF conn.policy = "unset" THEN SshErr("nocallback")
                   ELSE IF r = "hostkey" /\ conn.policy = "knownhosts"
                        THEN SshErr("hostkey")
                   ELSE IF r = "auth" THEN SshErr("auth")
                   ELSE Nil
          IN conn' = [conn EXCEPT !.ssh = IF e = Nil THEN "open" ELSE "nil",
                                  !.err = e, !.pc = "done"]
    /\ UNCHANGED Others

\* What c.Client.Close() returns: the close of the network connection
\* succeeds or fails on an open connection, and on one already closed it is
\* the network's error for the use of a closed connection.
SshClose(state, ok) ==
    IF state = "closed" THEN SshErr("closed")
    ELSE IF ok THEN Nil ELSE SshErr("close")

\* Close: return c.Client.Close(), by a caller whose constructor returned
\* no error and who has no call in flight.
Close ==
    /\ conn.pc = "done" /\ conn.err = Nil
    /\ conn.closes < MaxCloses
    /\ \A p \in Procs : call[p].pc = "idle"
    /\ \E ok \in BOOLEAN :
          conn' = [conn EXCEPT !.ssh = "closed", !.closes = @ + 1,
                               !.closeErr = SshClose(conn.ssh, ok)]
    /\ UNCHANGED Others

----------------------------------------------------------------------------
(* The caller.                                                             *)

\* The caller has the call's result; the call is over.
Return(p) ==
    /\ call[p].pc = "done"
    /\ log' = Append(log, [op |-> call[p].op, src |-> call[p].src,
                            dst |-> call[p].dst, err |-> call[p].err,
                            failed |-> g[p].failed])
    /\ call' = [call EXCEPT ![p] = Idle]
    /\ UNCHANGED <<conn, local, remote, chans, cmds, g, ncalls>>

Transfer(p) ==
    \/ UploadStat(p)
    \/ NewSftp(p)
    \/ UploadFileOpen(p)
    \/ UploadFileCreate(p)
    \/ UploadFileCopy(p)
    \/ WalkVisit(p)
    \/ WalkOpen(p)
    \/ WalkCreate(p)
    \/ WalkCopy(p)
    \/ WalkEnd(p)
    \/ DownloadStat(p)
    \/ DownloadFileOpen(p)
    \/ DownloadFileMkdir(p)
    \/ DownloadFileCreate(p)
    \/ DownloadFileCopy(p)
    \/ DownloadFileSync(p)
    \/ DownloadStep(p)

\* One caller, one call at a time.
Next ==
    \/ StartUpload("p1")
    \/ StartDownload("p1")
    \/ StartRun("p1")
    \/ StartRunContext("p1")
    \/ Transfer("p1")
    \/ Command("p1")
    \/ Return("p1")

Spec == Init /\ [][Next]_vars

\* One caller that uploads and, once the upload has returned, downloads what
\* the upload wrote.
RoundTripNext ==
    \/ ncalls = 0 /\ BeginUpload("p1")
    \/ ncalls = 1 /\ Len(log) = 1 /\ BeginDownload("p1")
    \/ Transfer("p1")
    \/ Return("p1")

SpecRoundTrip == Init /\ [][RoundTripNext]_vars

\* A caller that makes a client, runs commands on it when it has one, and
\* closes it, more than once too.
InitConn ==
    /\ local = EmptyFS
    /\ remote = EmptyFS
    /\ chans = {}
    /\ cmds = {}
    /\ call = [p \in Procs |-> Idle]
    /\ g = [p \in Procs |-> Fresh(local, remote, {}, {})]
    /\ ncalls = 0
    /\ log = <<>>
    /\ conn = NoClient

ConnNext ==
    \/ New
    \/ NewUnknown
    \/ CallNewConn
    \/ NewConn
    \/ Dial
    \/ Handshake
    \/ Close
    \/ conn.pc = "done" /\ conn.err = Nil /\ StartRun("p1")
    \/ conn.pc = "done" /\ conn.err = Nil /\ StartRunContext("p1")
    \/ Command("p1")
    \/ Return("p1")

SpecConn == InitConn /\ [][ConnNext]_vars

\* The bytes of a file that is at LocalDst before any call.
OldBytes == <<1, 0>>

\* fs with a file of OldBytes at LocalDst.
WithOld(fs) == WriteFile(MkdirAll(fs, Dir(LocalDst)), LocalDst, OldBytes)

\* As Init, with or without an earlier file at the local path of the
\* downloads.
InitV1 ==
    /\ \E t \in Trees, side \in {"local", "remote"}, old \in BOOLEAN :
          LET l == IF side = "local" THEN Planted(t, SrcRoot) ELSE EmptyFS
          IN /\ local = IF old THEN WithOld(l) ELSE l
             /\ remote = IF side = "remote" THEN Planted(t, RemoteRoot)
                         ELSE EmptyFS
    /\ chans = {}
    /\ cmds = {}
    /\ call = [p \in Procs |-> Idle]
    /\ g = [p \in Procs |-> Fresh(local, remote, {}, {})]
    /\ ncalls = 0
    /\ log = <<>>
    /\ conn = Connected

\* One caller of UploadV1, DownloadV1 and Download.
V1Next ==
    \/ StartUploadV1("p1")
    \/ StartDownloadV1("p1")
    \/ StartDownload("p1")
    \/ V1("p1")
    \/ NewSftp("p1")
    \/ DownloadStat("p1")
    \/ DownloadFileOpen("p1")
    \/ DownloadFileMkdir("p1")
    \/ DownloadFileCreate("p1")
    \/ DownloadFileCopy("p1")
    \/ DownloadFileSync("p1")
    \/ DownloadStep("p1")
    \/ Return("p1")

SpecV1 == InitV1 /\ [][V1Next]_vars

\* The trees the concurrent callers start from: a directory holding one
\* file, and a single file.
ConcTrees ==
    {[dirs |-> {<<>>}, files |-> [q \in {<<NameOrder[1]>>} |-> <<0, 1>>]],
     [dirs |-> {}, files |-> [q \in {<<>>} |-> <<0, 1>>]]}

\* A tree at the local source root and one at the remote root.
InitConc ==
    /\ \E t \in ConcTrees, u \in ConcTrees :
          /\ local = Planted(t, SrcRoot)
          /\ remote = Planted(u, RemoteRoot)
    /\ chans = {}
    /\ cmds = {}
    /\ call = [p \in Procs |-> Idle]
    /\ g = [p \in Procs |-> Fresh(local, remote, {}, {})]
    /\ ncalls = 0
    /\ log = <<>>
    /\ conn = Connected

\* Two callers on one client, each making one transfer call, their steps
\* interleaved in any order.
ConcNext ==
    \E p \in Procs :
        \/ BeginUpload(p)
        \/ BeginDownload(p)
        \/ Transfer(p)

SpecConc == InitConc /\ [][ConcNext]_vars

----------------------------------------------------------------------------
(* The claims.                                                             *)

Done(p) == call[p].pc = "done"

IsTransfer(p) == call[p].op \in {"Upload", "Download"}

\* The filesystem a transfer writes to.
Dest(p) == IF call[p].op = "Upload" THEN remote ELSE local

\* Every file of fs lies in a directory of fs, as do that directory's
\* ancestors.
ParentsExist(fs) ==
    \A f \in DOMAIN fs.files : \A q \in Prefixes(Parent(f)) : IsDir(fs, q)

\* C1: an Upload whose os.Stat of the source fails has returned that stat
\* error, has opened no filesystem sub-channel, and has made, created and
\* written nothing: the remote filesystem is as it was before the call.
C1_StatFailureDoesNothing ==
    \A p \in Procs :
        (call[p].op = "Upload" /\ g[p].first = "stat") =>
            /\ Done(p)
            /\ call[p].err = OsErr("stat", call[p].src)
            /\ g[p].opened = 0
            /\ chans = g[p].preChans
            /\ remote = g[p].preRemote
            /\ g[p].made = {} /\ g[p].written = {}

C1_Witness ==
    \E p \in Procs :
        /\ call[p].op = "Upload" /\ Done(p)
        /\ ~Exists(local, call[p].src)
        /\ g[p].first = "stat"

\* C2: a transfer call opens at most one filesystem sub-channel, holds no
\* open one but its own, and when it has returned, with or without an
\* error, the open filesystem sub-channels are those open before the call.
C2_OneSftpPerCallClosed ==
    \A p \in Procs :
        IsTransfer(p) =>
            /\ g[p].opened <= 1
            /\ chans \subseteq g[p].preChans \cup {call[p].sftp}
            /\ Done(p) => chans = g[p].preChans

C2_Witness ==
    \E p \in Procs :
        /\ IsTransfer(p) /\ Done(p) /\ call[p].dir
        /\ g[p].opened = 1
        /\ call[p].err # Nil
        /\ Cardinality(g[p].made) + Cardinality(g[p].written) >= 2

\* C3: in a directory transfer no node is taken up after an operation
\* failed, and a call in which an operation failed returns an error.
C3_FirstErrorAborts ==
    \A p \in Procs :
        (IsTransfer(p) /\ call[p].dir) =>
            /\ g[p].late = {}
            /\ (Done(p) /\ g[p].failed) => call[p].err # Nil

\* C4: a transfer that returned nil issued no operation that failed.
C4_NilOnlyIfAllSucceeded ==
    \A p \in Procs :
        (IsTransfer(p) /\ Done(p) /\ call[p].err = Nil) => ~g[p].failed

\* C5: during a directory Upload, a directory Download or a single-file
\* Download, every file at the destination has its parent directory and
\* all of that directory's ancestors at the destination.
C5_ParentsBeforeFiles ==
    \A p \in Procs :
        (IsTransfer(p) /\ (call[p].dir \/ call[p].op = "Download")) =>
            ParentsExist(Dest(p))

\* C6: a directory Upload in which no operation failed returns nil and
\* leaves at the destination root exactly the source tree, directories
\* (empty ones too) and files with their bytes, and nothing new elsewhere.
C6_UploadMirrorsTree ==
    \A p \in Procs :
        (call[p].op = "Upload" /\ call[p].dir /\ Done(p) /\ ~g[p].failed) =>
            /\ call[p].err = Nil
            /\ TreeAt(remote, call[p].dst) = TreeAt(local, call[p].src)
            /\ \A d \in remote.dirs :
                  IsPrefix(call[p].dst, d) \/ d \in g[p].preRemote.dirs
                     \/ d \in Prefixes(call[p].dst)
            /\ \A f \in DOMAIN remote.files :
                  IsPrefix(call[p].dst, f) \/ IsFile(g[p].preRemote, f)

C6_Witness ==
    \E p \in Procs :
        /\ call[p].op = "Upload" /\ call[p].dir /\ Done(p) /\ ~g[p].failed
        /\ \E d \in local.dirs :
              /\ Len(d) > Len(call[p].src) /\ IsPrefix(call[p].src, d)
              /\ SortedEntries(local, d) = <<>>
        /\ \E f \in DOMAIN local.files :
              IsPrefix(call[p].src, f) /\ local.files[f] # <<>>

\* C7: when an Upload of a regular file returned without a failure and the
\* Download of what it wrote returns without a failure, the downloaded file
\* has the bytes of the uploaded one.
C7_RoundTrip ==
    \A p \in Procs :
        (/\ call[p].op = "Download" /\ Done(p) /\ ~g[p].failed
         /\ Len(log) = 1 /\ log[1].op = "Upload" /\ ~log[1].failed
         /\ IsFile(local, log[1].src)) =>
            /\ call[p].err = Nil
            /\ IsFile(local, call[p].dst)
            /\ local.files[call[p].dst] = local.files[log[1].src]

C7_Witness ==
    \E p \in Procs :
        /\ call[p].op = "Download" /\ Done(p) /\ ~g[p].failed
        /\ Len(log) = 1 /\ log[1].op = "Upload" /\ ~log[1].failed
        /\ IsFile(local, log[1].src)
        /\ local.files[log[1].src] # <<>>

\* C8: whatever a directory transfer wrote in full stays: every file it
\* completed is at the destination with all its bytes and every directory
\* it made is there, also once the call has returned an error.
C8_NoRollback ==
    \A p \in Procs :
        (IsTransfer(p) /\ call[p].dir) =>
            /\ \A w \in g[p].written :
                  IsFile(Dest(p), w[1]) /\ Dest(p).files[w[1]] = w[2]
            /\ \A d \in g[p].made : IsDir(Dest(p), d)

C8_Witness ==
    \E p \in Procs :
        /\ IsTransfer(p) /\ call[p].dir /\ Done(p)
        /\ call[p].err # Nil
        /\ g[p].first \in {"open", "create", "copy"}
        /\ \E w \in g[p].written : w[2] # <<>>

\* C9: when the first failure of a directory transfer is an open, a create
\* or a copy, the error returned carries the path of the node it failed on.
C9_ErrorCarriesPath ==
    \A p \in Procs :
        (/\ IsTransfer(p) /\ call[p].dir /\ Done(p)
         /\ g[p].first \in {"open", "create", "copy"}) =>
            call[p].err.path \in g[p].firstPaths

\* C10: a Run or a RunContext opens at most one command sub-channel, exactly
\* one unless opening it failed, and when the call has returned the open
\* command sub-channels are those open before it.
C10_OneSessionPerRunClosed ==
    \A p \in Procs :
        call[p].op \in {"Run", "RunContext"} =>
            /\ g[p].sessions <= 1
            /\ cmds \subseteq g[p].preCmds \cup {call[p].sess}
            /\ Done(p) =>
                  /\ cmds = g[p].preCmds
                  /\ g[p].sessions = IF g[p].first = "newsession" THEN 0 ELSE 1

C10_Witness ==
    \E p \in Procs :
        /\ call[p].op = "Run" /\ Done(p)
        /\ call[p].err = SshErr("exec")
        /\ g[p].sessions = 1

\* C11 as stated: a RunContext whose context was cancelled before the call
\* has returned the Cancelled error and has left the open command
\* sub-channels as they were before the call.
C11_PreCancelledReturnsCancelled ==
    \A p \in Procs :
        (call[p].op = "RunContext" /\ call[p].cancelled /\ Done(p)) =>
            /\ call[p].err = SshErr("cancelled")
            /\ cmds = g[p].preCmds

\* C11, amended: a RunContext whose context was cancelled before the call
\* returns the error of c.NewSession() when the command sub-channel could
\* not be opened and the Cancelled error otherwise, never nil; in both
\* cases the open command sub-channels are those open before the call.
C11_CancelledUnlessOpenFailed ==
    \A p \in Procs :
        (call[p].op = "RunContext" /\ call[p].cancelled /\ Done(p)) =>
            /\ call[p].err = IF g[p].first = "newsession"
                              THEN SshErr("newsession")
                              ELSE SshErr("cancelled")
            /\ g[p].sessions = IF g[p].first = "newsession" THEN 0 ELSE 1
            /\ cmds = g[p].preCmds

C11_Witness ==
    \E p \in Procs :
        /\ call[p].op = "RunContext" /\ call[p].cancelled /\ Done(p)
        /\ g[p].sessions = 1
        /\ call[p].err = SshErr("cancelled")

\* C12: a Close of a client that was closed before returns no error and
\* leaves the client as it was, closed.
C12_CloseIdempotent ==
    conn.closes >= 2 => (conn.closeErr = Nil /\ conn.ssh = "closed")

\* C16: what a constructor returned is a client or an error, never both:
\* there is a client exactly when there is no error, and the client's
\* connection is live exactly then.
C16_SessionOrError ==
    conn.pc = "done" =>
        /\ conn.client = "ptr" <=> conn.err = Nil
        /\ conn.ssh # "nil" <=> conn.err = Nil

\* C17: no network connection is dialed and no client is connected with
\* the host key policy unset; New whose known hosts cannot be loaded
\* returns the error with nothing dialed, and a NewConn with the policy
\* unset returns an error.
C17_PolicySetBeforeDial ==
    /\ "unset" \notin conn.dialed
    /\ conn.ssh # "nil" => conn.policy # "unset"
    /\ conn.err = OsErr("knownhosts", NoPath) => conn.dialed = {}
    /\ (conn.pc = "done" /\ conn.client = "ptr" /\ conn.policy = "unset") =>
          conn.err # Nil

\* The handles caller p's call holds on files of one side.
HandlesOn(p, side) == {h \in call[p].handles : h[1] = side}

\* C13: in a Download, Sync is called on a local file only once its copy is
\* complete, a local file whose copy is complete keeps its handle open
\* until Sync has been called on it, and a Download that returned nil
\* synced every file it copied, with success.
C13_SyncBeforeRelease ==
    \A p \in Procs :
        call[p].op = "Download" =>
            /\ g[p].syncCalled \subseteq g[p].copied
            /\ \A t \in g[p].copied \ g[p].syncCalled :
                  <<"local", t>> \in call[p].handles
            /\ (Done(p) /\ call[p].err = Nil) =>
                  g[p].copied \subseteq g[p].synced

C13_Witness ==
    \E p \in Procs :
        /\ call[p].op = "Download" /\ call[p].dir /\ Done(p)
        /\ call[p].err = OsErr("sync", LocalDst \o <<"b">>)
        /\ g[p].synced = {LocalDst \o <<"a">>}
        /\ g[p].copied = {LocalDst \o <<"a">>, LocalDst \o <<"b">>}

\* C14: a Download whose Stat of the remote path fails has returned the
\* stat error, has left the local filesystem as it was before the call,
\* and the one sub-channel it opened for the stat is closed.
C14_DownloadStatFailureDoesNothing ==
    \A p \in Procs :
        (call[p].op = "Download" /\ g[p].first = "stat") =>
            /\ Done(p)
            /\ call[p].err = SftpErr("stat")
            /\ local = g[p].preLocal
            /\ g[p].made = {} /\ g[p].written = {} /\ g[p].copied = {}
            /\ g[p].opened = 1
            /\ chans = g[p].preChans

C14_Witness ==
    \E p \in Procs :
        /\ call[p].op = "Download" /\ Done(p)
        /\ ~Exists(remote, call[p].src)
        /\ g[p].first = "stat"
        /\ g[p].opened = 1

\* C15: a call that returned an error returned the error of the operation
\* that failed first in it.
C15_FirstErrorReturned ==
    \A p \in Procs :
        (Done(p) /\ call[p].err # Nil) => call[p].err.op = g[p].first

\* C19: a call holds at most one handle on a source file and one on a
\* destination file, none when a directory transfer is about to take up its
\* next node, and none once it has returned.
C19_OneNodeAtATime ==
    \A p \in Procs :
        /\ Cardinality(HandlesOn(p, "local")) <= 1
        /\ Cardinality(HandlesOn(p, "remote")) <= 1
        /\ call[p].pc \in {"walk", "downloadDirectory", "done", "idle"} =>
              call[p].handles = {}

C19_Witness ==
    \E p \in Procs :
        /\ IsTransfer(p) /\ call[p].dir
        /\ call[p].pc \in {"walk", "downloadDirectory"}
        /\ Cardinality(g[p].written) = 1
        /\ call[p].stack # <<>>
        /\ call[p].handles = {}

\* C20: a DownloadV1 that failed at the opening of its sub-channel or of
\* the remote file has left an empty file at the local path, whatever was
\* there before, having created it before any sub-channel was opened; a
\* Download that failed at the opening of its sub-channel or at the stat of
\* the remote path has left the local filesystem as it was.
C20_DownloadV1TruncatesFirst ==
    \A p \in Procs :
        /\ (call[p].op = "DownloadV1" /\ g[p].first \in {"newclient", "open"}) =>
              /\ Done(p)
              /\ IsFile(local, call[p].dst)
              /\ local.files[call[p].dst] = <<>>
              /\ g[p].first = "newclient" => g[p].opened = 0
        /\ (call[p].op = "DownloadV1" /\ g[p].opened > 0) =>
              IsFile(local, call[p].dst)
        /\ (call[p].op = "Download" /\ g[p].first \in {"newclient", "stat"}) =>
              /\ Done(p)
              /\ local = g[p].preLocal

C20_Witness ==
    \E p \in Procs :
        /\ call[p].op = "DownloadV1" /\ Done(p)
        /\ ~Exists(remote, call[p].src)
        /\ g[p].first = "open"
        /\ IsFile(g[p].preLocal, call[p].dst)
        /\ g[p].preLocal.files[call[p].dst] = OldBytes
        /\ local.files[call[p].dst] = <<>>

\* C18: of two callers' concurrent transfer calls no two hold the same
\* filesystem sub-channel, each call's sub-channel stays open until that
\* call closes it, no call opens more than one, and the open sub-channels
\* are those the calls in flight hold: none once all have returned.
C18_OwnSubChannel ==
    /\ \A p, q \in Procs :
          (p # q /\ call[p].sftp # 0) => call[p].sftp # call[q].sftp
    /\ \A p \in Procs :
          /\ call[p].sftp # 0 => call[p].sftp \in chans
          /\ g[p].opened <= 1
    /\ chans = {call[p].sftp : p \in {q \in Procs : call[q].sftp # 0}}

C18_Witness ==
    /\ Done("p1") /\ g["p1"].opened = 1
    /\ call["p1"].dir /\ call["p1"].err # Nil
    /\ call["p2"].pc \in {"walk_copy", "downloadFile_copy"}
    /\ call["p2"].sftp = 2
    /\ chans = {2}

====
